---- MODULE Spec2Model ----
(***************************************************************************)
(* Model of the Loki client (src/clients/loki.js): the push transaction    *)
(* over stream buffers, the read operations of the Read class and of the   *)
(* older Loki class, and the result normalizer parseLogs.                  *)
(*                                                                         *)
(* One public operation is in flight at a time.  An operation runs in two  *)
(* steps, split at its only suspension point (the await of the transport): *)
(* the call step (validation, collection, issuing the request) and the     *)
(* continuation step (finalisation, error wrapping, parsing).  The         *)
(* transport settles in between, and the caller may append entries to its  *)
(* buffers at any time.                                                    *)
(***************************************************************************)
EXTENDS Integers, Sequences, FiniteSets, TLC

\* ---------------------------------------------------------------- bounds
NumBuffers == 2
MaxEntries == 2
MaxStreams == 2

Buffers == 1..NumBuffers

\* ------------------------------------------------------- JavaScript values
Undefined == [t |-> "undefined"]
Str(s)    == [t |-> "str", v |-> s]
Num(n)    == [t |-> "num", n |-> n]
Arr(xs)   == [t |-> "arr", items |-> xs]
Obj       == [t |-> "obj"]
Bool(b)   == [t |-> "bool", b |-> b]

\* ToBoolean, as applied by `!x` and `if (x)`.
Truthy(v) ==
  CASE v.t = "undefined" -> FALSE
    [] v.t = "str"       -> v.v # ""
    [] v.t = "num"       -> v.n # 0
    [] v.t = "bool"      -> v.b
    [] OTHER             -> TRUE

\* String(v), as applied by URLSearchParams to the values it is given.
ToStr(v) ==
  CASE v.t = "str"       -> v.v
    [] v.t = "num"       -> ToString(v.n)
    [] v.t = "undefined" -> "undefined"
    [] v.t = "arr"       -> "<array>"
    [] OTHER             -> "[object Object]"

\* ----------------------------------------------------------------- errors
\* new GigapipeError(message, statusCode): a classified error.
GigapipeError(message, statusCode) ==
  [classified |-> TRUE, message |-> message, statusCode |-> statusCode]

\* An error of any other class (TypeError, RangeError, a raw network error).
PlainError(name, statusCode) ==
  [classified |-> FALSE, message |-> <<name>>, statusCode |-> statusCode]

StatusCodes == {"undefined", "500"}

\* What the transport may reject with.
TransportErrors ==
  { GigapipeError(<<"Request failed">>, sc) : sc \in StatusCodes } \cup
  { PlainError("socket hang up", sc) : sc \in StatusCodes }

\* wrapError losing the status code of the error it wraps.
wrapErrorNoStatus(prefix, error) ==
  IF error.classified
    THEN error
    ELSE GigapipeError(<<prefix>> \o error.message, "undefined")

\* The .catch handler shared by push and by every read operation.
wrapError(prefix, error) ==
  IF error.classified
    THEN error
    ELSE GigapipeError(<<prefix>> \o error.message, error.statusCode)

\* The message prefix each operation wraps an unclassified error with.
errorPrefix(kind) ==
  CASE kind = "push"        -> "Loki push failed: "
    [] kind = "query"       -> "Loki query failed: "
    [] kind = "queryRange"  -> "Loki query range failed: "
    [] kind = "labels"      -> "Loki labels retrieval failed: "
    [] kind = "labelValues" -> "Loki label values retrieval failed: "
    [] kind = "series"      -> "Loki series retrieval failed: "

\* ---------------------------------------------------------- stream buffer
EmptyStream == [entries |-> <<>>, confirmed |-> <<>>]

\* Stream.addEntry
StreamAppend(s, e) == [s EXCEPT !.entries = Append(@, e)]

\* Stream.collect: the wire form of the buffer
StreamCollect(b, s) == [labels |-> b, entries |-> s.entries]

\* Stream.collect leaves the buffer as it is
StreamAfterCollect(s) == s

\* Stream.confirm: the pending entries become confirmed
StreamConfirm(s) == [entries |-> <<>>, confirmed |-> s.confirmed \o s.entries]

\* Stream.undo: the pending entries stay pending
StreamUndo(s) == s

\* ------------------------------------------------------------------ state
VARIABLES
  buffers,     \* the caller's Stream objects: pending and confirmed entries
  nextId,      \* number of entries appended so far
  reader,      \* options of the Read instance made by createReader
  pc,          \* "idle", "awaiting", "settled" or "done"
  op,          \* the operation in flight or just finished, with its arguments
  calls,       \* the transport requests issued by the operation
  settled,     \* how the transport call settled
  outcome,     \* how the operation returned
  collectLog,  \* buffers collect() was called on, in call order
  finalLog,    \* confirm() and undo() calls, in call order
  atCall       \* the buffers as they were when the operation was called

vars == <<buffers, nextId, reader, pc, op, calls, settled, outcome,
          collectLog, finalLog, atCall>>

Resolved(value) == [status |-> "resolved", value |-> value]
Rejected(error) == [status |-> "rejected", error |-> error]
NoOutcome       == [status |-> "none"]

Init ==
  /\ buffers = [b \in Buffers |-> EmptyStream]
  /\ nextId = 0
  /\ reader = [made |-> FALSE]
  /\ pc = "idle"
  /\ op = [kind |-> "none"]
  /\ calls = <<>>
  /\ settled = NoOutcome
  /\ outcome = NoOutcome
  /\ collectLog = <<>>
  /\ finalLog = <<>>
  /\ atCall = [b \in Buffers |-> EmptyStream]

\* ------------------------------------------------------------------ inputs
StreamRef(b) == [t |-> "stream", id |-> b]

\* Elements a caller may put into the array given to push.
StreamItems == { StreamRef(b) : b \in Buffers } \cup { Obj }

RECURSIVE SeqsUpTo(_, _)
SeqsUpTo(S, n) ==
  IF n = 0 THEN { <<>> }
  ELSE LET shorter == SeqsUpTo(S, n - 1)
       IN  shorter \cup { Append(q, x) : q \in { r \in shorter : Len(r) = n - 1 }, x \in S }

PushInputs == { Arr(q) : q \in SeqsUpTo(StreamItems, MaxStreams) } \cup { Obj, Undefined }

NoOptions == [orgId |-> Undefined, async |-> Undefined,
              fpLimit |-> Undefined, ttlDays |-> Undefined]
PushOptions ==
  { NoOptions,
    [NoOptions EXCEPT !.orgId = Str("tenant"), !.fpLimit = Num(5)] }

PushResponses == { Str("ok"), Obj }

\* -------------------------------------------------------------- Loki.push
\* Loki.headers(options)
lokiHeaders(options) ==
  (IF Truthy(options.orgId)   THEN { <<"X-Scope-OrgID", options.orgId>> }   ELSE {}) \cup
  (IF Truthy(options.async)   THEN { <<"X-Async-Insert", options.async>> }  ELSE {}) \cup
  (IF Truthy(options.fpLimit) THEN { <<"X-Ttl-Days", options.fpLimit>> }    ELSE {}) \cup
  (IF Truthy(options.ttlDays) THEN { <<"X-FP-LIMIT", options.ttlDays>> }    ELSE {})

\* s instanceof Stream
IsStream(item) == item.t = "stream"

\* everyStream without the check of s.entries.length: empty buffers are
\* collected into the payload as well.
RECURSIVE everyStreamNoSkip(_, _)
everyStreamNoSkip(items, acc) ==
  IF items = <<>> THEN acc
  ELSE LET s == Head(items) IN
       IF ~IsStream(s) THEN [acc EXCEPT !.ok = FALSE]
       ELSE everyStreamNoSkip(Tail(items),
              [ok      |-> TRUE,
               bufs    |-> [acc.bufs EXCEPT ![s.id] = StreamAfterCollect(@)],
               payload |-> Append(acc.payload, StreamCollect(s.id, acc.bufs[s.id])),
               log     |-> Append(acc.log, s.id)])

\* everyStream confirming each buffer as soon as it is collected.
RECURSIVE everyStreamEager(_, _)
everyStreamEager(items, acc) ==
  IF items = <<>> THEN acc
  ELSE LET s == Head(items) IN
       IF ~IsStream(s) THEN [acc EXCEPT !.ok = FALSE]
       ELSE IF acc.bufs[s.id].entries # <<>>
         THEN everyStreamEager(Tail(items),
                [ok      |-> TRUE,
                 bufs    |-> [acc.bufs EXCEPT ![s.id] = StreamConfirm(@)],
                 payload |-> Append(acc.payload, StreamCollect(s.id, acc.bufs[s.id])),
                 log     |-> Append(acc.log, s.id)])
         ELSE everyStreamEager(Tail(items), acc)

\* The callback of streams.every(...), folded over the array: it stops at the
\* first element that is not a Stream, and collects every Stream before it
\* that has entries.  acc = [ok, bufs, payload, log].
RECURSIVE everyStream(_, _)
everyStream(items, acc) ==
  IF items = <<>> THEN acc
  ELSE LET s == Head(items) IN
       IF ~IsStream(s) THEN [acc EXCEPT !.ok = FALSE]
       ELSE IF acc.bufs[s.id].entries # <<>>
         THEN everyStream(Tail(items),
                [ok      |-> TRUE,
                 bufs    |-> [acc.bufs EXCEPT ![s.id] = StreamAfterCollect(@)],
                 payload |-> Append(acc.payload, StreamCollect(s.id, acc.bufs[s.id])),
                 log     |-> Append(acc.log, s.id)])
         ELSE everyStream(Tail(items), acc)

\* Array.isArray(streams) && streams.every(...)
validateStreams(streams, bufs) ==
  IF streams.t # "arr"
    THEN [ok |-> FALSE, bufs |-> bufs, payload |-> <<>>, log |-> <<>>]
    ELSE everyStream(streams.items,
                     [ok |-> TRUE, bufs |-> bufs, payload |-> <<>>, log |-> <<>>])

\* forEachConfirm walking the array from its end.
RECURSIVE forEachConfirmReversed(_, _)
forEachConfirmReversed(items, acc) ==
  IF items = <<>> THEN acc
  ELSE LET last == items[Len(items)] IN
       forEachConfirmReversed(SubSeq(items, 1, Len(items) - 1),
         [bufs |-> [acc.bufs EXCEPT ![last.id] = StreamConfirm(@)],
          log  |-> Append(acc.log, <<"confirm", last.id>>)])

\* streams.forEach(s => s.confirm()).  acc = [bufs, log].
RECURSIVE forEachConfirm(_, _)
forEachConfirm(items, acc) ==
  IF items = <<>> THEN acc
  ELSE forEachConfirm(Tail(items),
         [bufs |-> [acc.bufs EXCEPT ![Head(items).id] = StreamConfirm(@)],
          log  |-> Append(acc.log, <<"confirm", Head(items).id>>)])

\* forEachUndo over the buffers that went into the payload only.
RECURSIVE forEachUndoCollected(_, _)
forEachUndoCollected(items, acc) ==
  IF items = <<>> THEN acc
  ELSE IF acc.bufs[Head(items).id].entries = <<>>
    THEN forEachUndoCollected(Tail(items), acc)
    ELSE forEachUndoCollected(Tail(items),
           [bufs |-> [acc.bufs EXCEPT ![Head(items).id] = StreamUndo(@)],
            log  |-> Append(acc.log, <<"undo", Head(items).id>>)])

\* The catch block calling confirm() where it should call undo().
RECURSIVE forEachUndoAsConfirm(_, _)
forEachUndoAsConfirm(items, acc) ==
  IF items = <<>> THEN acc
  ELSE forEachUndoAsConfirm(Tail(items),
         [bufs |-> [acc.bufs EXCEPT ![Head(items).id] = StreamConfirm(@)],
          log  |-> Append(acc.log, <<"confirm", Head(items).id>>)])

\* streams.forEach(s => s.undo()).  acc = [bufs, log].
RECURSIVE forEachUndo(_, _)
forEachUndo(items, acc) ==
  IF items = <<>> THEN acc
  ELSE forEachUndo(Tail(items),
         [bufs |-> [acc.bufs EXCEPT ![Head(items).id] = StreamUndo(@)],
          log  |-> Append(acc.log, <<"undo", Head(items).id>>)])

\* The request push hands to the transport.
pushRequest(payload, options) ==
  [path    |-> <<"/loki/api/v1/push">>,
   params  |-> <<>>,
   method  |-> "POST",
   headers |-> lokiHeaders(options),
   body    |-> [streams |-> payload]]

\* push sending nothing when no buffer has entries.
pushCallsSkipEmpty(payload, options) ==
  IF payload = <<>> THEN <<>> ELSE <<pushRequest(payload, options)>>

\* The transport calls of one push: the single request of the try block.
pushCalls(payload, options) == <<pushRequest(payload, options)>>

\* One operation at a time: the caller awaits each call before the next.
CanCall == pc = "idle"

\* push, up to its await.
push(streams, options) ==
  /\ CanCall
  /\ LET v == validateStreams(streams, buffers) IN
       /\ op' = [kind |-> "push", target |-> "Loki", streams |-> streams,
                 options |-> options]
       /\ atCall' = buffers
       /\ buffers' = v.bufs
       /\ collectLog' = v.log
       /\ finalLog' = <<>>
       /\ settled' = NoOutcome
       /\ IF ~v.ok
            THEN /\ calls' = <<>>
                 /\ outcome' = Rejected(GigapipeError(
                        <<"Streams must be an array of Stream instances">>, "undefined"))
                 /\ pc' = "done"
            ELSE /\ calls' = pushCalls(v.payload, options)
                 /\ outcome' = NoOutcome
                 /\ pc' = "awaiting"
  /\ UNCHANGED <<nextId, reader>>

\* push, after its await: the rest of the try block, or the catch block.
pushContinue ==
  /\ pc = "settled"
  /\ op.kind = "push"
  /\ LET start == [bufs |-> buffers, log |-> <<>>]
         fin   == IF settled.status = "resolved"
                    THEN forEachConfirm(op.streams.items, start)
                    ELSE forEachUndo(op.streams.items, start)
     IN  /\ buffers' = fin.bufs
         /\ finalLog' = fin.log
         /\ outcome' = IF settled.status = "resolved"
                         THEN Resolved(settled.value)
                         ELSE Rejected(wrapError(errorPrefix("push"), settled.error))
  /\ pc' = "done"
  /\ UNCHANGED <<nextId, reader, op, calls, settled, collectLog, atCall>>

\* -------------------------------------------------------- read operations
QueryStrings == { Undefined, Str(""), Str("{job=a}") }
Timestamps   == { Undefined, Num(0), Num(5) }
LabelNames   == { Undefined, Str(""), Str("job") }
Matches ==
  { Undefined, Str(""), Str("{job=a}"), Num(42), Obj,
    Arr(<<>>), Arr(<<Str("{job=a}")>>),
    Arr(<<Str("{job=a}"), Str("{job=b}")>>),
    Arr(<<Str("{job=b}"), Str("{job=a}")>>),
    Arr(<<Num(42)>>) }

NoReadOptions == [limit |-> Undefined, start |-> Undefined, end |-> Undefined,
                  step |-> Undefined, parse |-> Undefined, orgId |-> Undefined]
ReadOptions ==
  { NoReadOptions,
    [NoReadOptions EXCEPT !.parse = Bool(TRUE)],
    [NoReadOptions EXCEPT !.limit = Num(10), !.start = Num(0), !.end = Num(5),
                          !.step = Num(1), !.orgId = Str("tenant")] }

\* What createReader may be given.
ReaderOptions == { Undefined, [orgId |-> Undefined], [orgId |-> Str("tenant")] }

Targets == { "Read", "Loki" }

\* Loki.createReader(options): new Read(this.service, options)
createReader(options) ==
  /\ CanCall
  /\ reader' = [made |-> TRUE, options |-> options]
  /\ UNCHANGED <<buffers, nextId, pc, op, calls, settled, outcome, collectLog,
                 finalLog, atCall>>

Returned(h) == [threw |-> FALSE, value |-> h]
Threw(e)    == [threw |-> TRUE, error |-> e]

\* Read.headers(): reads this.options.orgId
readHeaders(options) ==
  IF options = Undefined
    THEN Threw(PlainError("TypeError", "undefined"))
    ELSE Returned(IF Truthy(options.orgId)
                    THEN { <<"X-Scope-OrgID", options.orgId>> } ELSE {})

\* The headers of a read request: Read.headers() on a reader, and
\* Loki.headers(options) on the Loki class that has the read methods itself.
headersFor(target, options) ==
  IF target = "Read"
    THEN readHeaders(reader.options)
    ELSE Returned(lokiHeaders([NoOptions EXCEPT !.orgId = options.orgId]))

\* if (v) params.append(key, v)
appendIf(params, key, v) ==
  IF Truthy(v) THEN Append(params, <<key, ToStr(v)>>) ELSE params

\* match.forEach(m => params.append('match[]', m))
appendEach(params, key, items) ==
  params \o [i \in 1..Len(items) |-> <<key, ToStr(items[i])>>]

\* A call that throws before its await.
failEarly(kind, target, args, error) ==
  /\ op' = [kind |-> kind, target |-> target, args |-> args]
  /\ calls' = <<>>
  /\ outcome' = Rejected(error)
  /\ pc' = "done"

\* this.service.request(path + params, { method: 'GET', headers: this.headers() })
issueGet(kind, target, args, options, path, params) ==
  LET h == headersFor(target, options) IN
  IF h.threw
    THEN failEarly(kind, target, args, h.error)
    ELSE /\ op' = [kind |-> kind, target |-> target, args |-> args]
         /\ calls' = <<[path |-> path, params |-> params, method |-> "GET",
                       headers |-> h.value, body |-> Undefined]>>
         /\ outcome' = NoOutcome
         /\ pc' = "awaiting"

\* What every read call does to the rest of the state.
readFrame(target) ==
  /\ CanCall
  /\ target = "Read" => reader.made
  /\ atCall' = buffers
  /\ collectLog' = <<>>
  /\ finalLog' = <<>>
  /\ settled' = NoOutcome
  /\ UNCHANGED <<buffers, nextId, reader>>

\* query, up to its await.
query(target, q, options) ==
  /\ readFrame(target)
  /\ LET args == [query |-> q, options |-> options] IN
     IF ~Truthy(q)
       THEN failEarly("query", target, args,
                      GigapipeError(<<"Query parameter is required">>, "undefined"))
       ELSE issueGet("query", target, args, options, <<"/loki/api/v1/query">>,
              appendIf(appendIf(appendIf(<<<<"query", ToStr(q)>>>>,
                "limit", options.limit), "start", options.start), "end", options.end))

\* queryRange, up to its await.
queryRange(target, q, start, end, options) ==
  /\ readFrame(target)
  /\ LET args == [query |-> q, start |-> start, end |-> end, options |-> options] IN
     IF ~Truthy(q)
       THEN failEarly("queryRange", target, args,
                      GigapipeError(<<"Query parameter is required">>, "undefined"))
     ELSE IF ~Truthy(start) \/ ~Truthy(end)
       THEN failEarly("queryRange", target, args,
                      GigapipeError(<<"Start and end timestamps are required">>, "undefined"))
       ELSE issueGet("queryRange", target, args, options, <<"/loki/api/v1/query_range">>,
              appendIf(appendIf(<<<<"query", ToStr(q)>>, <<"start", ToStr(start)>>,
                                  <<"end", ToStr(end)>>>>,
                "step", options.step), "limit", options.limit))

\* labels, up to its await.
labels(target, options) ==
  /\ readFrame(target)
  /\ issueGet("labels", target, [options |-> options], options, <<"/loki/api/v1/labels">>,
       appendIf(appendIf(<<>>, "start", options.start), "end", options.end))

\* labelValues, up to its await.
labelValues(target, labelName, options) ==
  /\ readFrame(target)
  /\ LET args == [labelName |-> labelName, options |-> options] IN
     IF ~Truthy(labelName)
       THEN failEarly("labelValues", target, args,
                      GigapipeError(<<"Label name parameter is required">>, "undefined"))
       ELSE issueGet("labelValues", target, args, options,
              <<"/loki/api/v1/label/", ToStr(labelName), "/values">>,
              appendIf(appendIf(<<>>, "start", options.start), "end", options.end))

\* seriesParams without the type check: anything else is sent as it is.
seriesParamsUnchecked(params, match) ==
  IF match.t = "arr" THEN Returned(appendEach(params, "match[]", match.items))
  ELSE Returned(Append(params, <<"match[]", ToStr(match)>>))

\* The match[] parameters of series, or the error of its type check.
seriesParams(params, match) ==
  IF match.t = "str" THEN Returned(Append(params, <<"match[]", match.v>>))
  ELSE IF match.t = "arr" THEN Returned(appendEach(params, "match[]", match.items))
  ELSE Threw(GigapipeError(<<"Match must be a string or array of strings">>, "undefined"))

\* series, up to its await.
series(target, match, options) ==
  /\ readFrame(target)
  /\ LET args == [match |-> match, options |-> options]
         p    == seriesParams(
                   appendIf(appendIf(<<>>, "start", options.start), "end", options.end),
                   match)
     IN
     IF ~Truthy(match)
       THEN failEarly("series", target, args,
                      GigapipeError(<<"Match parameter is required">>, "undefined"))
     ELSE IF p.threw
       THEN failEarly("series", target, args, p.error)
       ELSE issueGet("series", target, args, options, <<"/loki/api/v1/series">>, p.value)

\* --------------------------------------------------------- Loki.parseLogs
NaN == [nan |-> TRUE]

\* The integer a string starts with, for the strings the responses carry.
IntPrefix ==
  [ s \in {"1000000000", "2000000000", "1500000", "12abc"} |->
      CASE s = "1000000000" -> 1000000000
        [] s = "2000000000" -> 2000000000
        [] s = "1500000"    -> 1500000
        [] s = "12abc"      -> 12 ]

\* parseInt(v)
parseInt(v) ==
  CASE v.t = "num" -> [nan |-> FALSE, n |-> v.n]
    [] v.t = "str" -> IF v.v \in DOMAIN IntPrefix
                        THEN [nan |-> FALSE, n |-> IntPrefix[v.v]]
                        ELSE NaN
    [] OTHER       -> NaN

NsPerMs == 1000000

\* toMs dropping what is left of the division, as Math.floor of it would.
toMsTruncated(v) ==
  LET p == parseInt(v) IN
  IF p.nan THEN NaN
  ELSE [nan |-> FALSE, whole |-> p.n \div NsPerMs, frac |-> 0]

\* parseInt(timestampNs) / 1000000, a floating-point division: the quotient
\* and what is left of it, in millionths of a millisecond.
toMs(v) ==
  LET p == parseInt(v) IN
  IF p.nan THEN NaN
  ELSE [nan |-> FALSE, whole |-> p.n \div NsPerMs, frac |-> p.n % NsPerMs]

\* The texts JSON.parse decodes, with what it decodes them to.
JsonTexts == { "{\"a\":1}", "true" }
jsonDecode(text) ==
  IF text = "true" THEN Bool(TRUE) ELSE [t |-> "obj", json |-> text]

\* try { JSON.parse(message) } catch (e) { message }
parseMessage(message) ==
  CASE message.t = "str" -> IF message.v \in JsonTexts THEN jsonDecode(message.v)
                            ELSE message
    [] message.t \in {"num", "bool"} -> message
    [] OTHER -> message

EmptyLabels == [t |-> "obj", labels |-> "{}"]

\* The body of the innermost forEach: no record for an entry that is not an
\* array of at least two elements, a RangeError from toISOString() on an
\* invalid date, and one record otherwise.
parseEntry(entry, lbls) ==
  IF entry.t # "arr" THEN Returned(<<>>)
  ELSE IF Len(entry.items) < 2 THEN Returned(<<>>)
  ELSE LET timestampNs == entry.items[1]
           message     == entry.items[2]
           timestampMs == toMs(timestampNs)
       IN  IF timestampMs.nan
             THEN Threw(PlainError("RangeError", "undefined"))
             ELSE Returned(<<[timestamp   |-> timestampNs,
                              timestampMs |-> timestampMs,
                              date        |-> timestampMs.whole,
                              dateISO     |-> <<"ISO", timestampMs.whole>>,
                              message     |-> parseMessage(message),
                              labels      |-> lbls]>>)

\* entries.forEach(...), stopping at the first exception.
RECURSIVE forEachEntry(_, _, _)
forEachEntry(entries, lbls, logs) ==
  IF entries = <<>> THEN Returned(logs)
  ELSE LET r == parseEntry(Head(entries), lbls) IN
       IF r.threw THEN r
       ELSE forEachEntry(Tail(entries), lbls, logs \o r.value)

\* x.forEach(...) where x is not an array, x.values where x is undefined
NotAFunction == Threw(PlainError("TypeError", "undefined"))

\* stream.stream || {}
labelsOr(v) == IF Truthy(v) THEN v ELSE EmptyLabels

\* The callback of results.forEach for the "streams" shape.
parseStream(stream, logs) ==
  IF stream.t # "obj" THEN NotAFunction
  ELSE IF ~Truthy(stream.values) THEN Returned(logs)
  ELSE IF stream.values.t # "arr" THEN NotAFunction
  ELSE forEachEntry(stream.values.items, labelsOr(stream.stream), logs)

\* const [, logEntries] = bucket, then the normalisation to a list of entries
bucketEntries(bucket) ==
  IF bucket.t = "arr"
    THEN LET logEntries == IF Len(bucket.items) >= 2 THEN bucket.items[2]
                           ELSE Undefined
         IN  Returned(
               IF /\ logEntries.t = "arr"
                  /\ Len(logEntries.items) > 0
                  /\ logEntries.items[1].t = "arr"
                 THEN logEntries.items
                 ELSE <<logEntries>>)
  ELSE IF bucket.t = "str" THEN Returned(<<Undefined>>)
  ELSE Threw(PlainError("TypeError", "undefined"))

\* series.values.forEach(bucket => ...)
RECURSIVE forEachBucket(_, _, _)
forEachBucket(buckets, lbls, logs) ==
  IF buckets = <<>> THEN Returned(logs)
  ELSE LET es == bucketEntries(Head(buckets)) IN
       IF es.threw THEN es
       ELSE LET r == forEachEntry(es.value, lbls, logs) IN
            IF r.threw THEN r
            ELSE forEachBucket(Tail(buckets), lbls, r.value)

\* The callback of results.forEach for the "matrix" shape.
parseSeries(ser, logs) ==
  IF ser.t # "obj" THEN NotAFunction
  ELSE IF ~Truthy(ser.values) THEN Returned(logs)
  ELSE IF ser.values.t # "arr" THEN NotAFunction
  ELSE forEachBucket(ser.values.items, labelsOr(ser.metric), logs)

\* results.forEach(...) for either shape.
RECURSIVE forEachResult(_, _, _)
forEachResult(results, shape, logs) ==
  IF results = <<>> THEN Returned(logs)
  ELSE LET r == IF shape = "streams" THEN parseStream(Head(results), logs)
                ELSE parseSeries(Head(results), logs)
       IN  IF r.threw THEN r
           ELSE forEachResult(Tail(results), shape, r.value)

\* result?.response?.data?.result
resultField(result) == IF result.t = "response" THEN result.result ELSE Undefined

\* parseLogs reading a result of any other type as a streams result.
parseLogsAnyType(result) ==
  IF ~Truthy(resultField(result)) THEN Returned(<<>>)
  ELSE LET resultType == result.resultType
           results    == result.result
       IN  IF results.t # "arr" THEN NotAFunction
           ELSE forEachResult(results.items,
                              IF resultType = Str("matrix") THEN "matrix" ELSE "streams",
                              <<>>)

\* Loki.parseLogs(result)
parseLogs(result) ==
  IF ~Truthy(resultField(result)) THEN Returned(<<>>)
  ELSE LET resultType == result.resultType
           results    == result.result
       IN  IF resultType \in {Str("streams"), Str("matrix")}
             THEN IF results.t # "arr" THEN NotAFunction
                  ELSE forEachResult(results.items, resultType.v, <<>>)
             ELSE Returned(<<>>)

\* ------------------------------------------------------ transport responses
Response(resultType, result) ==
  [t |-> "response", resultType |-> resultType, result |-> result]
Element(lbls, values) ==
  [t |-> "obj", stream |-> lbls, metric |-> lbls, values |-> values]

Pair(ts, msg) == Arr(<<ts, msg>>)
Job == Str("job=a")

ReadResponses ==
  { Obj,
    Response(Str("streams"), Undefined),
    Response(Str("streams"),
      Arr(<<Element(Job, Arr(<<Pair(Str("1000000000"), Str("hello"))>>))>>)),
    Response(Str("streams"),
      Arr(<<Element(Undefined, Undefined),
            Element(Job, Arr(<<Arr(<<Str("1000000000")>>),
                               Pair(Str("1500000"), Str("{\"a\":1}"))>>))>>)),
    Response(Str("streams"),
      Arr(<<Element(Job, Arr(<<Pair(Str("abc"), Str("hello"))>>))>>)),
    Response(Str("matrix"),
      Arr(<<Element(Job, Arr(<<Arr(<<Num(1000),
                                     Arr(<<Pair(Str("2000000000"), Str("{\"a\":1}")),
                                           Pair(Num(3000000), Str("x"))>>)>>),
                               Arr(<<Num(2000),
                                     Pair(Str("1000000000"), Str("y"))>>)>>))>>)),
    Response(Str("matrix"), Obj),
    Response(Str("vector"), Arr(<<Element(Job, Arr(<<Pair(Str("1000000000"), Str("hello"))>>))>>)) }

\* What the transport may resolve the request of an operation with.
ResponsesFor(kind) == IF kind = "push" THEN PushResponses ELSE ReadResponses

\* A read operation after its await: the .catch handler, then the optional
\* parse of query and queryRange.
readContinue ==
  /\ pc = "settled"
  /\ op.kind # "push"
  /\ outcome' =
       IF settled.status = "rejected"
         THEN Rejected(wrapError(errorPrefix(op.kind), settled.error))
       ELSE IF op.kind \in {"query", "queryRange"} /\ Truthy(op.args.options.parse)
         THEN LET logs == parseLogs(settled.value) IN
              IF logs.threw THEN Rejected(logs.error) ELSE Resolved(logs.value)
         ELSE Resolved(settled.value)
  /\ pc' = "done"
  /\ UNCHANGED <<buffers, nextId, reader, op, calls, settled, collectLog,
                 finalLog, atCall>>

\* -------------------------------------------------------------- transport
\* service.request resolves with the parsed response.
transportResolve(response) ==
  /\ pc = "awaiting"
  /\ response \in ResponsesFor(op.kind)
  /\ settled' = Resolved(response)
  /\ pc' = "settled"
  /\ UNCHANGED <<buffers, nextId, reader, op, calls, outcome, collectLog,
                 finalLog, atCall>>

\* service.request rejects.
transportReject(error) ==
  /\ pc = "awaiting"
  /\ settled' = Rejected(error)
  /\ pc' = "settled"
  /\ UNCHANGED <<buffers, nextId, reader, op, calls, outcome, collectLog,
                 finalLog, atCall>>

\* ----------------------------------------------------------------- caller
\* The caller appends one entry to one of its buffers (Stream.addEntry).
addEntry(b) ==
  /\ nextId < MaxEntries
  /\ nextId' = nextId + 1
  /\ buffers' = [buffers EXCEPT ![b] = StreamAppend(@, nextId + 1)]
  /\ UNCHANGED <<reader, pc, op, calls, settled, outcome, collectLog,
                 finalLog, atCall>>

\* The caller's await of the operation completes: it has the outcome, and the
\* record of the call is dropped.
awaitDone ==
  /\ pc = "done"
  /\ pc' = "idle"
  /\ op' = [kind |-> "none"]
  /\ calls' = <<>>
  /\ settled' = NoOutcome
  /\ outcome' = NoOutcome
  /\ collectLog' = <<>>
  /\ finalLog' = <<>>
  /\ atCall' = [b \in Buffers |-> EmptyStream]
  /\ UNCHANGED <<buffers, nextId, reader>>

\* Push transactions, with a caller that goes on appending to its buffers.
Next ==
  \/ \E b \in Buffers : addEntry(b)
  \/ awaitDone
  \/ \E s \in PushInputs, o \in PushOptions : push(s, o)
  \/ pushContinue
  \/ \E r \in PushResponses : transportResolve(r)
  \/ \E e \in TransportErrors : transportReject(e)

Spec == Init /\ [][Next]_vars

\* Every public operation, on buffers the caller leaves empty.
OpsNext ==
  \/ awaitDone
  \/ \E s \in PushInputs, o \in PushOptions : push(s, o)
  \/ pushContinue
  \/ \E o \in ReaderOptions : createReader(o)
  \/ \E t \in Targets, q \in QueryStrings, o \in ReadOptions : query(t, q, o)
  \/ \E t \in Targets, q \in QueryStrings, a \in Timestamps, b \in Timestamps,
        o \in ReadOptions : queryRange(t, q, a, b, o)
  \/ \E t \in Targets, o \in ReadOptions : labels(t, o)
  \/ \E t \in Targets, n \in LabelNames, o \in ReadOptions : labelValues(t, n, o)
  \/ \E t \in Targets, m \in Matches, o \in ReadOptions : series(t, m, o)
  \/ readContinue
  \/ \E r \in PushResponses \cup ReadResponses : transportResolve(r)
  \/ \E e \in TransportErrors : transportReject(e)

OpsSpec == Init /\ [][OpsNext]_vars

\* ------------------------------------------------- parseLogs called directly
MaxElems == 2
MaxVals  == 2

\* [timestampNs, message] pairs, a pair that is too short and a pair whose
\* timestamp is not a number.
WholePair   == Pair(Str("1000000000"), Str("hello"))
FractionPair == Pair(Str("1500000"), Str("{\"a\":1}"))
ShortPair   == Arr(<<Str("2000000000")>>)
BadPair     == Pair(Str("abc"), Str("hello"))

\* What the values of a "streams" element may hold.
StreamEntries == { WholePair, FractionPair, ShortPair }

\* [bucketTimestamp, payload] buckets: a single pair, several pairs with one
\* that is too short, and a bucket without payload.
Bucket(payload) == Arr(<<Num(1000), payload>>)
MatrixBuckets ==
  { Bucket(WholePair),
    Bucket(Arr(<<FractionPair, ShortPair, WholePair>>)),
    Arr(<<Num(1000)>>) }

\* The values of one element: absent, or a sequence of at most MaxVals items.
ValuesOf(items) ==
  { Undefined } \cup { Arr(q) : q \in UNION { [1..n -> items] : n \in 0..MaxVals } }

\* The label set of the i-th element; every second element has none.
LabelsAt(i) == IF i % 2 = 0 THEN Undefined ELSE Str(ToString(i))

\* The result array whose i-th element has the i-th of the given values.
ResultOf(q) == Arr([i \in 1..Len(q) |-> Element(LabelsAt(i), q[i])])

ResultTypes == { Str("streams"), Str("matrix"), Str("vector"), Undefined }

\* Results that are not what either shape expects: a timestamp that is not a
\* number, a payload that is a single short pair, and values that are no
\* arrays at all.
OddResults ==
  { Undefined, Obj, Num(0), Num(5), Str(""), Arr(<<Undefined>>),
    Arr(<<Element(Str("1"), Arr(<<WholePair, BadPair>>))>>),
    Arr(<<Element(Str("1"), Arr(<<Bucket(BadPair)>>))>>),
    Arr(<<Element(Str("1"), Arr(<<Bucket(ShortPair), Bucket(Str("x"))>>))>>),
    Arr(<<Element(Str("1"), Arr(<<Str("x"), WholePair>>))>>) }

\* The values an element of a result of the given type may have: buckets
\* under "matrix", entries under every other type.
ValuesFor(resultType) ==
  IF resultType = Str("matrix") THEN ValuesOf(MatrixBuckets)
  ELSE ValuesOf(StreamEntries)

\* loki.parseLogs(result), the instance method: it returns what the static
\* parseLogs returns, and throws what it throws.
callParseLogs(result) ==
  /\ CanCall
  /\ op' = [kind |-> "parseLogs", target |-> "Loki", args |-> [result |-> result]]
  /\ outcome' = LET logs == parseLogs(result) IN
                IF logs.threw THEN Rejected(logs.error) ELSE Resolved(logs.value)
  /\ pc' = "done"
  /\ calls' = <<>>
  /\ settled' = NoOutcome
  /\ collectLog' = <<>>
  /\ finalLog' = <<>>
  /\ atCall' = buffers
  /\ UNCHANGED <<buffers, nextId, reader>>

\* The normalizer on its own, applied to results of at most MaxElems
\* elements under every result type, to odd results, and to values without a
\* response.data.result.
ParseNext ==
  \/ /\ CanCall
     /\ \E t \in ResultTypes, n \in 0..MaxElems :
          \E q \in [1..n -> ValuesFor(t)] : callParseLogs(Response(t, ResultOf(q)))
  \/ \E t \in ResultTypes, r \in OddResults : callParseLogs(Response(t, r))
  \/ \E r \in { Undefined, Obj } : callParseLogs(r)
  \/ awaitDone

ParseSpec == Init /\ [][ParseNext]_vars

\* ======================================================================
\* Properties of the push transaction (specification Spec)
\* ======================================================================

\* The input is an array whose elements are all Stream instances.
ValidInput(streams) ==
  /\ streams.t = "arr"
  /\ \A i \in 1..Len(streams.items) : streams.items[i].t = "stream"

ValidPush == op.kind = "push" /\ ValidInput(op.streams)
PushDone  == ValidPush /\ pc = "done"

\* One call of the given method on every input buffer, in input order.
LogOfAll(method) ==
  [i \in 1..Len(op.streams.items) |-> <<method, op.streams.items[i].id>>]

\* C1: when a push on a valid input has returned or rejected, either every
\* buffer of the input was confirmed or every buffer was undone; at no point
\* does the same call have both a confirmed and an undone buffer.
C1_AllOrNothing ==
  /\ \A i, j \in 1..Len(finalLog) : finalLog[i][1] = finalLog[j][1]
  /\ PushDone => finalLog = LogOfAll("confirm") \/ finalLog = LogOfAll("undo")

C1_Witness ==
  /\ PushDone
  /\ Len(op.streams.items) = 2
  /\ op.streams.items[1].id # op.streams.items[2].id
  /\ atCall[op.streams.items[1].id].entries = <<>>
  /\ atCall[op.streams.items[2].id].entries # <<>>
  /\ finalLog = LogOfAll("undo")

\* C2: when the transport call resolves, every buffer of the input, the
\* empty ones included, is confirmed exactly once in input order, none is
\* undone, and push resolves with the response of the transport.
C2_SuccessConfirmsAll ==
  (PushDone /\ settled.status = "resolved") =>
    /\ finalLog = LogOfAll("confirm")
    /\ outcome = Resolved(settled.value)

C2_Witness ==
  /\ PushDone
  /\ settled = Resolved(Obj)
  /\ Len(op.streams.items) = 2
  /\ atCall[op.streams.items[1].id].entries # <<>>
  /\ atCall[op.streams.items[2].id].entries = <<>>
  /\ Len(calls[1].body.streams) = 1
  /\ Len(finalLog) = 2

IsPrefix(p, q) == Len(p) <= Len(q) /\ \A i \in 1..Len(p) : p[i] = q[i]

\* C3: when the transport call fails, every buffer of the input is undone in
\* input order, push rejects, and each buffer still holds the pending entries
\* it had before the push, so that a following collect() returns them again.
C3_FailureUndoesAll ==
  (PushDone /\ settled.status = "rejected") =>
    /\ finalLog = LogOfAll("undo")
    /\ outcome.status = "rejected"
    /\ \A i \in 1..Len(op.streams.items) :
         LET b == op.streams.items[i].id IN
           /\ IsPrefix(atCall[b].entries, buffers[b].entries)
           /\ IsPrefix(atCall[b].entries, StreamCollect(b, buffers[b]).entries)
           /\ buffers[b].confirmed = atCall[b].confirmed

C3_Witness ==
  /\ PushDone
  /\ settled.status = "rejected"
  /\ Len(op.streams.items) = 2
  /\ collectLog # <<>>
  /\ \E i \in 1..2 : buffers[op.streams.items[i].id].entries # <<>>

\* C4: within a push, nothing is confirmed or undone and no buffer is changed
\* by the push before the transport call has settled: up to then the buffers
\* change only by the caller's own appends, and the finalisation is never
\* partial.
C4_NoMutationBeforeSettle ==
  [][ /\ (op'.kind = "push" /\ pc' = "awaiting") =>
           /\ finalLog' = <<>>
           /\ buffers' = buffers \/ \E b \in Buffers : addEntry(b)
      /\ ValidPush' => Len(finalLog') \in {0, Len(op'.streams.items)} ]_vars

C4_Witness ==
  /\ ValidPush
  /\ pc = "awaiting"
  /\ collectLog # <<>>
  /\ buffers = atCall
  /\ finalLog = <<>>

\* The positions of the input whose buffer had entries when push was called.
NonEmptyAt == { i \in 1..Len(op.streams.items) :
                  atCall[op.streams.items[i].id].entries # <<>> }

\* C5: a push on a valid input issues exactly one transport call, a POST on
\* /loki/api/v1/push; push([]) and a push of empty buffers only issue it too,
\* with an empty streams array, and finalise every buffer.
C5_ExactlyOneCall ==
  ValidPush =>
    /\ Len(calls) = 1
    /\ calls[1].method = "POST"
    /\ calls[1].path = <<"/loki/api/v1/push">>
    /\ NonEmptyAt = {} => calls[1].body.streams = <<>>
    /\ pc = "done" => Len(finalLog) = Len(op.streams.items)

C5_Witness ==
  /\ PushDone
  /\ Len(op.streams.items) = 2
  /\ NonEmptyAt = {}
  /\ Len(calls) = 1
  /\ \E b \in Buffers : atCall[b].entries # <<>>

\* The k-th smallest element of a set of positions.
RECURSIVE Kth(_, _)
Kth(S, k) ==
  LET m == CHOOSE x \in S : \A y \in S : x <= y IN
  IF k = 1 THEN m ELSE Kth(S \ {m}, k - 1)

\* C7: the body sent by push has, in input order, one collected element for
\* each input buffer that has a pending entry when it is collected and none
\* for a buffer without; empty buffers are valid input.
C7_PayloadIsNonEmptyBuffers ==
  ValidPush =>
    /\ Len(calls) = 1
    /\ Len(calls[1].body.streams) = Cardinality(NonEmptyAt)
    /\ \A k \in 1..Cardinality(NonEmptyAt) :
         LET b == op.streams.items[Kth(NonEmptyAt, k)].id IN
           calls[1].body.streams[k] = [labels |-> b, entries |-> atCall[b].entries]

C7_Witness ==
  /\ ValidPush
  /\ Len(op.streams.items) = 2
  /\ NonEmptyAt = {2}
  /\ Len(calls[1].body.streams) = 1
  /\ calls[1].body.streams[1].labels = op.streams.items[2].id

\* ======================================================================
\* Properties of all public operations (specification OpsSpec)
\* ======================================================================

\* undefined, '' or 0: what the claims call absent or empty.
Absent(v) == v \in { Undefined, Str(""), Num(0) }

\* The arguments of the operation are among those the operations must refuse.
InvalidArguments ==
  CASE op.kind = "push"        -> ~ValidInput(op.streams)
    [] op.kind = "query"       -> Absent(op.args.query)
    [] op.kind = "queryRange"  -> \/ Absent(op.args.query)
                                  \/ Absent(op.args.start)
                                  \/ Absent(op.args.end)
    [] op.kind = "labelValues" -> Absent(op.args.labelName)
    [] op.kind = "series"      -> \/ Absent(op.args.match)
                                  \/ op.args.match.t \notin {"str", "arr"}
    [] OTHER                   -> FALSE

Kinds == { "push", "query", "queryRange", "labels", "labelValues", "series" }

\* C8: for push and for every read operation, a classified transport error is
\* propagated unchanged, and an unclassified one is replaced by a classified
\* error whose message starts with the prefix of the operation and whose
\* status code is that of the original error.
C8_TransportErrorPropagation ==
  /\ \A j, k \in Kinds : errorPrefix(j) = errorPrefix(k) => j = k
  /\ (pc = "done" /\ settled.status = "rejected") =>
       /\ outcome.status = "rejected"
       /\ IF settled.error.classified
            THEN outcome.error = settled.error
            ELSE /\ outcome.error.classified
                 /\ outcome.error.message = <<errorPrefix(op.kind)>> \o settled.error.message
                 /\ outcome.error.statusCode = settled.error.statusCode

C8_Witness ==
  /\ pc = "done"
  /\ op.kind = "series"
  /\ settled.status = "rejected"
  /\ ~settled.error.classified
  /\ settled.error.statusCode = "500"
  /\ outcome.error.statusCode = "500"

\* C9: every public operation either resolves with a value or rejects with a
\* classified error, never with an unclassified one.
C9_RejectsOnlyClassified ==
  (pc = "done" /\ outcome.status = "rejected") => outcome.error.classified

MissingParameter == GigapipeError(<<"Match parameter is required">>, "undefined")
InvalidInput ==
  GigapipeError(<<"Match must be a string or array of strings">>, "undefined")

\* The matchers of a match value that is a string or an array of strings.
Matchers(match) == IF match.t = "str" THEN <<match>> ELSE match.items

IsMatcherList(match) ==
  \/ match.t = "str"
  \/ match.t = "arr" /\ \A i \in 1..Len(match.items) : match.items[i].t = "str"

\* The match[] parameters of a request, in order.
MatchParams(request) ==
  SelectSeq(request.params, LAMBDA kv : kv[1] = "match[]")

\* C10: series fails with MissingParameter when match is absent or empty,
\* with InvalidInput when match is neither a string nor a sequence of
\* strings, and otherwise sends one match[] parameter per matcher in input
\* order.
C10_SeriesMatch ==
  (op.kind = "series" /\ (op.target = "Read" => reader.options # Undefined)) =>
    LET match == op.args.match IN
    IF Absent(match)
      THEN pc = "done" /\ outcome = Rejected(MissingParameter) /\ calls = <<>>
    ELSE IF ~IsMatcherList(match)
      THEN pc = "done" /\ outcome = Rejected(InvalidInput) /\ calls = <<>>
      ELSE /\ Len(calls) = 1
           /\ MatchParams(calls[1]) =
                [i \in 1..Len(Matchers(match)) |-> <<"match[]", Matchers(match)[i].v>>]

\* ======================================================================
\* Properties of the normalizer (specification ParseSpec)
\* ======================================================================

ParseDone == pc = "done" /\ op.kind = "parseLogs"

IsSeq(v) == v.t = "arr"

\* The input has one of the two shapes: its result is a sequence of elements.
HasShape(result) ==
  /\ result.t = "response"
  /\ result.resultType \in { Str("streams"), Str("matrix") }
  /\ IsSeq(result.result)
  /\ \A i \in 1..Len(result.result.items) : result.result.items[i].t = "obj"

RECURSIVE Concat(_)
Concat(qs) == IF qs = <<>> THEN <<>> ELSE Head(qs) \o Concat(Tail(qs))

\* A bucket payload as a sequence of pairs: the payload itself when its first
\* element is a sequence, and the payload alone otherwise.
PayloadPairs(bucket) ==
  LET payload == IF IsSeq(bucket) /\ Len(bucket.items) >= 2 THEN bucket.items[2]
                 ELSE Undefined
  IN  IF IsSeq(payload) /\ payload.items # <<>> /\ IsSeq(payload.items[1])
        THEN payload.items ELSE <<payload>>

\* The pairs of one element, in source order.
PairsOf(shape, element) ==
  IF ~IsSeq(element.values) THEN <<>>
  ELSE IF shape = "streams" THEN element.values.items
  ELSE Concat([i \in 1..Len(element.values.items) |->
                 PayloadPairs(element.values.items[i])])

HasTwo(pair) == IsSeq(pair) /\ Len(pair.items) >= 2

\* The label set of an element, empty when it has none.
LabelSetOf(shape, element) ==
  LET l == IF shape = "streams" THEN element.stream ELSE element.metric IN
  IF l = Undefined THEN EmptyLabels ELSE l

\* The records one element is to give: a timestamp and a label set for each
\* of its pairs of at least two elements.
RecordsOf(shape, element) ==
  LET pairs == SelectSeq(PairsOf(shape, element), HasTwo) IN
  [k \in 1..Len(pairs) |->
     [timestamp |-> pairs[k].items[1], labels |-> LabelSetOf(shape, element)]]

ExpectedRecords(result) ==
  Concat([i \in 1..Len(result.result.items) |->
            RecordsOf(result.resultType.v, result.result.items[i])])

\* The timestamp and the label set of every record of a log sequence.
Emitted(logs) ==
  [k \in 1..Len(logs) |-> [timestamp |-> logs[k].timestamp, labels |-> logs[k].labels]]

\* C11: the normalizer emits exactly one record for each pair of at least two
\* elements, in source order and with the label set of the enclosing element:
\* over the values of the elements of a "streams" result, and over the
\* normalized bucket payloads of a "matrix" result; shorter pairs and
\* elements without values give no record.
C11_OneRecordPerPair ==
  (ParseDone /\ HasShape(op.args.result)) =>
    /\ outcome.status = "resolved"
    /\ Emitted(outcome.value) = ExpectedRecords(op.args.result)

\* C11 on the inputs the normalizer does not throw on.
C11_WhenReturned ==
  (ParseDone /\ HasShape(op.args.result) /\ outcome.status = "resolved") =>
    Emitted(outcome.value) = ExpectedRecords(op.args.result)

\* The records of a finished call of the normalizer.
ParsedRecords == IF ParseDone /\ outcome.status = "resolved" THEN outcome.value ELSE <<>>

\* The millisecond timestamp of a record is a whole number of milliseconds.
WholeMs(rec) == rec.timestampMs.frac = 0

\* The quotient of the division of the record's nanoseconds by 1,000,000.
QuotientMs(rec) ==
  LET p == parseInt(rec.timestamp) IN
  /\ ~p.nan
  /\ rec.timestampMs.whole = p.n \div NsPerMs

\* The raw timestamp of every record is the first element of its pair.
KeepsSource ==
  (ParseDone /\ outcome.status = "resolved" /\ HasShape(op.args.result)) =>
    LET expected == ExpectedRecords(op.args.result) IN
    /\ Len(outcome.value) = Len(expected)
    /\ \A k \in 1..Len(expected) : outcome.value[k].timestamp = expected[k].timestamp

LacksResult(result) == result.t # "response" \/ result.result = Undefined

\* The result-type tag is missing or names neither of the two shapes.
OtherType(result) ==
  /\ result.t = "response"
  /\ result.resultType \notin { Str("streams"), Str("matrix") }

\* C13: the normalizer returns an empty sequence and never raises when the
\* response lacks the nested result field, and when the result-type tag is
\* missing or anything other than "streams" or "matrix", whatever the result
\* field contains.
C13_EmptyOnOtherInput ==
  (ParseDone /\ (LacksResult(op.args.result) \/ OtherType(op.args.result))) =>
    outcome = Resolved(<<>>)

\* A "vector" response whose result holds entries has been normalized.
C13_Witness ==
  /\ ParseDone
  /\ op.args.result =
       Response(Str("vector"), Arr(<<Element(Str("1"), Arr(<<WholePair, BadPair>>))>>))

\* A response without result field has been normalized.
C13_WitnessNoResult ==
  /\ ParseDone
  /\ op.args.result \in { Undefined, Obj, Response(Str("streams"), Undefined) }

\* ======================================================================
\* Further properties of push (specification Spec)
\* ======================================================================

\* The step is a push that rejects its input as invalid.
InvalidPushStep ==
  /\ pc = "idle"
  /\ pc' = "done"
  /\ op'.kind = "push"
  /\ ~ValidInput(op'.streams)

\* C14: when push rejects its input as invalid, every buffer of the input is
\* left exactly as it was before the call: none of them has been collected,
\* confirmed or undone.
C14_InvalidInputLeavesBuffers ==
  [][InvalidPushStep =>
       /\ buffers' = buffers
       /\ collectLog' = <<>>
       /\ finalLog' = <<>>]_vars

\* The elements of a sequence.
Range(q) == { q[i] : i \in 1..Len(q) }

\* Entry e of buffer b was in the payload of a transport call that succeeded.
WasSent(b, e) ==
  /\ settled.status = "resolved"
  /\ \E c \in 1..Len(calls) :
       \E k \in 1..Len(calls[c].body.streams) :
         /\ calls[c].body.streams[k].labels = b
         /\ e \in Range(calls[c].body.streams[k].entries)

\* C15: under any interleaving of the caller's appends with a push in flight,
\* every entry that becomes confirmed, and every entry that leaves the
\* pending sequence, was in the payload of a transport call that succeeded:
\* an entry appended while the push waits on the network is never confirmed
\* or cleared without having been sent.
C15_ConfirmedWasSent ==
  [][\A b \in Buffers :
       /\ \A e \in Range(buffers'[b].confirmed) \ Range(buffers[b].confirmed) :
            WasSent(b, e)
       /\ \A e \in Range(buffers[b].entries) \ Range(buffers'[b].entries) :
            WasSent(b, e)]_vars

\* C15 for the pushes during which the caller appended nothing.
C15_WithoutAppends ==
  [][(pc = "settled" /\ buffers = atCall) =>
       \A b \in Buffers :
         \A e \in Range(buffers'[b].confirmed) \ Range(buffers[b].confirmed) :
           WasSent(b, e)]_vars

====
